---- MODULE Spec2Model ----
(***************************************************************************)
(* Order submission and cancellation of the trading engine:                *)
(* OrderViewSet.perform_create / OrderViewSet.cancel (views.py),           *)
(* RiskManagementService (services/risk_management.py) and                 *)
(* MatchingEngine / OrderBookCache (services/matching_engine.py).          *)
(*                                                                         *)
(* Money, prices and sizes are Decimals in the source; they are modelled   *)
(* as integers (whole units), which is exact for +, - and *.               *)
(*                                                                         *)
(* The database is the shared state (orders, portfolio, order_book,        *)
(* audit).  Every request is served by a worker that holds its own Python  *)
(* objects (order, risk_service.portfolio, the MatchingEngine with its     *)
(* OrderBookCache); the source takes no lock, so the steps of two workers  *)
(* interleave at every database access.                                    *)
(***************************************************************************)
EXTENDS Integers, Sequences, FiniteSets, TLC

Users == {"u1", "u2"}
Assets == {"A", "B"}
Workers == {"w1", "w2"}
Sides == {"BUY", "SELL"}
OrderTypes == {"LIMIT", "MARKET"}

\* Bounds of the exploration.
MaxOrders == 3        \* orders created in a sequential run
MaxOrdersConc == 2    \* orders created in a concurrent run
MaxOrdersMatch == 2   \* orders created in a run of one user on one asset
MaxPrice == 2
MaxSize == 2
MaxOrdersRisk == 2    \* orders created in a run with unchecked inputs and switchable limits
MaxToggles == 1       \* calls of RiskLimitViewSet.toggle
MaxQuantity == 2      \* quantity of a Position row at the start of a call
MaxLimit == 3         \* largest value of a limit of a RiskLimit row
MaxOpen == 2          \* open orders the user holds when an order is validated
MaxTrades == 2        \* rows of table Trade when an order is validated
InitCash == 4         \* cash_balance = buying_power of every portfolio at the start

Prices == 1..MaxPrice
Sizes == 1..MaxSize

\* OrderSerializer declares no validator on price and size (DecimalField of the
\* model, no minimum): 0 is accepted.
Prices0 == 0..MaxPrice
Sizes0 == 0..MaxSize

VARIABLES
    orders,       \* table Order: sequence of rows, row i has id i
    portfolio,    \* table Portfolio: user -> [cash_balance, buying_power]
    order_book,   \* table OrderBook: asset -> [last_price, volume]
    audit,        \* table AuditLog, in insertion order
    pc,           \* worker -> position in the handler it runs
    order,        \* worker -> the handler's `order` object
    risk_service, \* worker -> risk_service.portfolio (the object read at construction)
    engine,       \* worker -> the MatchingEngine: its order_book object and its cache
    frame,        \* worker -> locals of _match_orders / _execute_trade / _publish_trade_event
    tx,           \* worker -> rows written inside transaction.atomic and not yet committed
    before,       \* worker -> the submitter's portfolio row when the submission started
    risk_limit_enabled, \* table RiskLimit, column enabled: user -> BOOLEAN
    positions,    \* table Position: <<user, asset>> -> [quantity, average_cost], rows that exist
    trades,       \* table Trade: sequence of rows [buyer, seller, price, size, today]
    call,         \* a call served on its own: [fn, in, out]
    backtests     \* table BacktestRun, with BacktestResult and the run in progress:
                  \* id -> [status, result, pc, outcome, runs]

vars == <<orders, portfolio, order_book, audit, pc, order, risk_service, engine, frame, tx, before,
          risk_limit_enabled, positions, trades, call, backtests>>

NoOrder == [id |-> 0]
NoPortfolio == [cash_balance |-> 0, buying_power |-> 0]
EmptyCache == [bids |-> <<>>, asks |-> <<>>, order_map |-> {}]
NoEngine == [order_book |-> [asset |-> "", last_price |-> 0, volume |-> 0], cache |-> EmptyCache]
NoFrame == [remaining_size |-> 0, filled_amount |-> 0, opposite_order |-> NoOrder,
            match_size |-> 0, execution_price |-> 0, trade_event |-> <<>>]
NoTx == [orders |-> <<>>, order_book |-> <<>>]
NoBacktests == <<>>
NoCall == [fn |-> "", in |-> <<>>, out |-> ""]

\* The sum of f over the set S: Sum(...) of a query, sum(...) of Python.
RECURSIVE SumOver(_, _)
SumOver(f, S) ==
    IF S = {} THEN 0
    ELSE LET x == CHOOSE y \in S : TRUE IN f[x] + SumOver(f, S \ {x})

Min(S) == CHOOSE x \in S : \A y \in S : x <= y
Max(S) == CHOOSE x \in S : \A y \in S : x >= y

----
(* RiskLimit rows (models.py RiskLimit), one per user; the limits are the  *)
(* defaults of get_or_create, the column enabled is switched by            *)
(* RiskLimitViewSet.toggle.                                                *)
risk_limits ==
    [u \in Users |->
        [enabled |-> risk_limit_enabled[u],
         max_order_size |-> 5000,
         max_position_size |-> 10000,
         max_daily_loss |-> 5000,
         max_daily_trades |-> 100,
         max_open_orders |-> 50]]

----
(* OrderBookCache *)

\* In the source a price map is a SortedDict price -> list of orders; here a
\* function whose domain is the set of prices present.
add_order(c, o) ==
    LET side == IF o.side = "BUY" THEN "bids" ELSE "asks"
        price_map == c[side]
        level == IF o.price \in DOMAIN price_map THEN price_map[o.price] ELSE <<>>
    IN [c EXCEPT
          ![side] = [p \in (DOMAIN price_map) \cup {o.price} |->
                        IF p = o.price THEN Append(level, o) ELSE price_map[p]],
          !.order_map = @ \cup {o.id}]

\* list.remove(order): drops the first element equal to `order`; Django model
\* instances compare equal when their primary keys are equal.
RECURSIVE ListRemove(_, _)
ListRemove(s, id) ==
    IF s = <<>> THEN <<>>
    ELSE IF Head(s).id = id THEN Tail(s)
    ELSE <<Head(s)>> \o ListRemove(Tail(s), id)

remove_order(c, o) ==
    LET side == IF o.side = "BUY" THEN "bids" ELSE "asks"
        price_map == c[side]
        level == ListRemove(price_map[o.price], o.id)
        keep == IF level = <<>> THEN (DOMAIN price_map) \ {o.price} ELSE DOMAIN price_map
    IN [c EXCEPT
          ![side] = [p \in keep |-> IF p = o.price THEN level ELSE price_map[p]],
          !.order_map = @ \ {o.id}]

\* An element of a level that was changed in place (opposite_order.size -= size).
replace_order(c, o) ==
    LET side == IF o.side = "BUY" THEN "bids" ELSE "asks"
    IN [c EXCEPT ![side] = [p \in DOMAIN @ |->
            [i \in 1..Len(@[p]) |-> IF @[p][i].id = o.id THEN o ELSE @[p][i]]]]

RECURSIVE AddAll(_, _)
AddAll(c, s) == IF s = <<>> THEN c ELSE AddAll(add_order(c, Head(s)), Tail(s))

\* Order.objects.filter(asset=..., status='PENDING'): the ids of the rows.
pending_orders(a) == {i \in 1..Len(orders) : orders[i].asset = a /\ orders[i].status = "PENDING"}

\* The query has no order_by and class Order has no Meta.ordering, so the
\* database may return the rows in any order.
QueryOrders(S) == {s \in [1..Cardinality(S) -> S] : \A i, j \in DOMAIN s : i # j => s[i] # s[j]}

_load_orders(rows) == AddAll(EmptyCache, rows)

----
(* MatchingEngine *)

\* A cross test that lets equal prices pass each other.
_is_price_matched_strict(o, opposite_price) ==
    IF o.order_type = "MARKET" THEN TRUE
    ELSE IF o.side = "BUY" THEN o.price > opposite_price
    ELSE o.price < opposite_price

_is_price_matched(o, opposite_price) ==
    IF o.order_type = "MARKET" THEN TRUE
    ELSE IF o.side = "BUY" THEN o.price >= opposite_price
    ELSE o.price <= opposite_price

opposite_price_map(c, o) == IF o.side = "BUY" THEN c.asks ELSE c.bids

\* price_map.peekitem(0 if order.side == 'BUY' else -1)[0]
best_price(o, price_map) ==
    IF o.side = "BUY" THEN Min(DOMAIN price_map) ELSE Max(DOMAIN price_map)

match_size(remaining_size, opposite_order) ==
    IF remaining_size <= opposite_order.size THEN remaining_size ELSE opposite_order.size

\* Taker-side pricing.
execution_price_taker(o, opposite_order) == o.price

execution_price(o, opposite_order) == opposite_order.price

----
(* RiskManagementService *)

_validate_position_size(o, limits) ==
    \* Position.objects.get(portfolio, asset); DoesNotExist gives quantity 0
    LET key == <<o.user, o.asset>>
        current_quantity == IF key \in DOMAIN positions THEN positions[key].quantity ELSE 0
        diff == current_quantity - o.size
        new_quantity == IF o.side = "BUY" THEN current_quantity + o.size
                        ELSE IF diff < 0 THEN -diff ELSE diff
    IN new_quantity * o.price <= limits.max_position_size

\* Trade rows of today (executed_at >= today_start) with the user as buyer,
\* and with the user as seller: two queries.
buy_trades(u) == {k \in DOMAIN trades : trades[k].today /\ trades[k].buyer = u}
sell_trades(u) == {k \in DOMAIN trades : trades[k].today /\ trades[k].seller = u}

\* A limit that still admits an order once the count has reached it.
_validate_daily_trade_limit_inclusive(u, limits) ==
    LET trades_today == Cardinality(buy_trades(u)) + Cardinality(sell_trades(u))
    IN trades_today <= limits.max_daily_trades

_validate_daily_trade_limit(u, limits) ==
    LET trades_today == Cardinality(buy_trades(u)) + Cardinality(sell_trades(u))
    IN trades_today < limits.max_daily_trades

\* `rows` is the Order table the query runs on
_validate_open_orders_limit(rows, u, limits) ==
    Cardinality({i \in 1..Len(rows) : rows[i].user = u /\ rows[i].status = "PENDING"})
        < limits.max_open_orders

\* sum(trade.price * trade.size for trade in ...)
RECURSIVE TradeValue(_)
TradeValue(S) ==
    IF S = {} THEN 0
    ELSE LET k == CHOOSE x \in S : TRUE
         IN trades[k].price * trades[k].size + TradeValue(S \ {k})

_validate_daily_loss_limit(u, limits) ==
    LET total_buy_cost == TradeValue(buy_trades(u))
        total_sell_revenue == TradeValue(sell_trades(u))
        daily_pnl == total_sell_revenue - total_buy_cost
    IN IF daily_pnl < 0 THEN -daily_pnl < limits.max_daily_loss ELSE TRUE

\* A check that asks for more than the cost of the order.
_validate_buying_power_strict(o, p) == p.buying_power > o.price * o.size

_validate_buying_power(o, p) == p.buying_power >= o.price * o.size

\* The gate with an order-size check that rejects a notional equal to the limit.
validate_order_inclusive(rows, o, limits, p) ==
    IF ~limits.enabled THEN "ok"
    ELSE IF o.price * o.size >= limits.max_order_size THEN "order_size"
    ELSE IF ~_validate_position_size(o, limits) THEN "position_size"
    ELSE IF ~_validate_daily_trade_limit(o.user, limits) THEN "daily_trades"
    ELSE IF ~_validate_open_orders_limit(rows, o.user, limits) THEN "open_orders"
    ELSE IF ~_validate_daily_loss_limit(o.user, limits) THEN "daily_loss"
    ELSE IF o.side = "BUY" /\ ~_validate_buying_power(o, p) THEN "buying_power"
    ELSE "ok"

\* The gate without the switch.
validate_order_enforced(rows, o, limits, p) ==
    IF o.price * o.size > limits.max_order_size THEN "order_size"
    ELSE IF ~_validate_position_size(o, limits) THEN "position_size"
    ELSE IF ~_validate_daily_trade_limit(o.user, limits) THEN "daily_trades"
    ELSE IF ~_validate_open_orders_limit(rows, o.user, limits) THEN "open_orders"
    ELSE IF ~_validate_daily_loss_limit(o.user, limits) THEN "daily_loss"
    ELSE IF o.side = "BUY" /\ ~_validate_buying_power(o, p) THEN "buying_power"
    ELSE "ok"

\* The gate with the open-orders check ahead of the daily-trade check.
validate_order_swapped(rows, o, limits, p) ==
    IF ~limits.enabled THEN "ok"
    ELSE IF o.price * o.size > limits.max_order_size THEN "order_size"
    ELSE IF ~_validate_position_size(o, limits) THEN "position_size"
    ELSE IF ~_validate_open_orders_limit(rows, o.user, limits) THEN "open_orders"
    ELSE IF ~_validate_daily_trade_limit(o.user, limits) THEN "daily_trades"
    ELSE IF ~_validate_daily_loss_limit(o.user, limits) THEN "daily_loss"
    ELSE IF o.side = "BUY" /\ ~_validate_buying_power(o, p) THEN "buying_power"
    ELSE "ok"

\* "ok" or the name of the first check that fails
validate_order(rows, o, limits, p) ==
    IF ~limits.enabled THEN "ok"
    ELSE IF o.price * o.size > limits.max_order_size THEN "order_size"
    ELSE IF ~_validate_position_size(o, limits) THEN "position_size"
    ELSE IF ~_validate_daily_trade_limit(o.user, limits) THEN "daily_trades"
    ELSE IF ~_validate_open_orders_limit(rows, o.user, limits) THEN "open_orders"
    ELSE IF ~_validate_daily_loss_limit(o.user, limits) THEN "daily_loss"
    ELSE IF o.side = "BUY" /\ ~_validate_buying_power(o, p) THEN "buying_power"
    ELSE "ok"

update_buying_power(p, o, is_filled) ==
    LET order_value == o.price * o.size
    IN IF o.side = "BUY"
       THEN IF ~is_filled
            THEN [p EXCEPT !.buying_power = @ - order_value]
            ELSE [p EXCEPT !.cash_balance = @ - order_value]
       ELSE IF is_filled
            THEN [p EXCEPT !.cash_balance = @ + order_value, !.buying_power = @ + order_value]
            ELSE p

restore_buying_power(p, o) ==
    IF o.side = "BUY" /\ o.status = "CANCELLED"
    THEN [p EXCEPT !.buying_power = @ + o.price * o.size]
    ELSE p

\* n / d (n >= 0, d > 0) as position.save() stores it in a DecimalField:
\* rounded to the unit of the column, halves to the even neighbour.
RoundDiv(n, d) ==
    LET q == n \div d
        r == n % d
    IN IF 2 * r > d \/ (2 * r = d /\ q % 2 = 1) THEN q + 1 ELSE q

SetRow(pos, key, row) == [k \in (DOMAIN pos) \cup {key} |-> IF k = key THEN row ELSE pos[k]]
DeleteRow(pos, key) == [k \in (DOMAIN pos) \ {key} |-> pos[k]]

\* risk_management.py 209-242, on the Position table pos: the table after the
\* call (every user of the model has a Portfolio row).
_update_user_position(pos, user, asset, quantity_change, price, is_buy) ==
    LET key == <<user, asset>>
        position == IF key \in DOMAIN pos THEN pos[key]
                    ELSE [quantity |-> 0, average_cost |-> 0]
        total_cost == position.quantity * position.average_cost + quantity_change * price
        new_quantity == position.quantity + quantity_change
        updated == IF is_buy
                   THEN [quantity |-> new_quantity,
                         average_cost |-> IF new_quantity > 0
                                          THEN RoundDiv(total_cost, new_quantity)
                                          ELSE position.average_cost]
                   ELSE [position EXCEPT !.quantity = @ - quantity_change]
    IN IF updated.quantity <= 0 THEN DeleteRow(pos, key) ELSE SetRow(pos, key, updated)

\* risk_management.py 189-207: the buyer's row, then the seller's.
update_position(pos, trade) ==
    _update_user_position(
        _update_user_position(pos, trade.buyer, trade.asset, trade.size, trade.price, TRUE),
        trade.seller, trade.asset, trade.size, trade.price, FALSE)

----
Init ==
    /\ orders = <<>>
    /\ portfolio = [u \in Users |-> [cash_balance |-> InitCash, buying_power |-> InitCash]]
    /\ order_book = [a \in Assets |-> [asset |-> a, last_price |-> 0, volume |-> 0]]
    /\ audit = <<>>
    /\ pc = [w \in Workers |-> "idle"]
    /\ order = [w \in Workers |-> NoOrder]
    /\ risk_service = [w \in Workers |-> NoPortfolio]
    /\ engine = [w \in Workers |-> NoEngine]
    /\ frame = [w \in Workers |-> NoFrame]
    /\ tx = [w \in Workers |-> NoTx]
    /\ before = [w \in Workers |-> NoPortfolio]
    /\ risk_limit_enabled = [u \in Users |-> TRUE]
    /\ positions = <<>>
    /\ trades = <<>>
    /\ backtests = NoBacktests
    /\ call = NoCall

----
(* Helpers of the actions *)

user_of(w) == order[w].user

AuditEntry(action, u, id, reason) ==
    [action |-> action, user |-> u, order_id |-> id, reason |-> reason]

\* order.save(): UPDATE of every column of the row from the Python object.
save_order(o) == [orders EXCEPT ![o.id] = o]

\* Row locks of the database: a row written inside a transaction that has not
\* ended cannot be written by another connection until that transaction ends.
OrderLocked(w, id) == \E w2 \in Workers \ {w} : id \in DOMAIN tx[w2].orders
BookLocked(w, a) ==
    \E w2 \in Workers \ {w} : tx[w2].order_book # <<>> /\ tx[w2].order_book.asset = a

\* Row i of table Order as the connection of worker w reads it: its own
\* uncommitted write, or else the committed row.
RowWritten(w, i) == IF i \in DOMAIN tx[w].orders THEN tx[w].orders[i] ELSE orders[i]

\* The request is over: its Python objects are gone.
Finish(w) ==
    /\ pc' = [pc EXCEPT ![w] = "idle"]
    /\ order' = [order EXCEPT ![w] = NoOrder]
    /\ risk_service' = [risk_service EXCEPT ![w] = NoPortfolio]
    /\ engine' = [engine EXCEPT ![w] = NoEngine]
    /\ frame' = [frame EXCEPT ![w] = NoFrame]
    /\ tx' = [tx EXCEPT ![w] = NoTx]
    /\ before' = [before EXCEPT ![w] = NoPortfolio]

----
(* OrderViewSet.perform_create *)

\* views.py 204-215: the order row is inserted (status defaults to PENDING)
\* and the risk service reads the user's limits and portfolio.
Create(w, u, a, p, s, t, sd) ==
    /\ pc[w] = "idle"
    /\ LET o == [id |-> Len(orders) + 1, user |-> u, asset |-> a, price |-> p, size |-> s,
                 order_type |-> t, side |-> sd, status |-> "PENDING"]
       IN /\ orders' = Append(orders, o)
          /\ order' = [order EXCEPT ![w] = o]
    /\ risk_service' = [risk_service EXCEPT ![w] = portfolio[u]]
    /\ before' = [before EXCEPT ![w] = portfolio[u]]
    /\ pc' = [pc EXCEPT ![w] = "validate"]
    /\ UNCHANGED <<portfolio, order_book, audit, engine, frame, tx, risk_limit_enabled, positions, trades, call, backtests>>

\* A gate that audits a rejection and leaves the order row as inserted.
Validate_unsaved(w) ==
    /\ pc[w] = "validate"
    /\ LET o == order[w]
           error_message == validate_order(orders, o, risk_limits[o.user], risk_service[w])
       IN IF error_message # "ok"
          THEN /\ audit' = audit \o
                     << AuditEntry("RISK_LIMIT_VIOLATED", o.user, o.id, error_message),
                        AuditEntry("ORDER_REJECTED", o.user, 0, error_message) >>
               /\ Finish(w)
               /\ UNCHANGED orders
          ELSE /\ pc' = [pc EXCEPT ![w] = "reserve"]
               /\ UNCHANGED <<orders, audit, order, risk_service, engine, frame, tx, before>>
    /\ UNCHANGED <<portfolio, order_book, risk_limit_enabled, positions, trades, call, backtests>>

\* A gate that reserves the funds of the order before it decides.
Validate_reserving(w) ==
    /\ pc[w] = "validate"
    /\ LET o == order[w]
           error_message == validate_order(orders, o, risk_limits[o.user], risk_service[w])
       IN IF error_message # "ok"
          THEN /\ ~OrderLocked(w, o.id)
               /\ orders' = save_order([o EXCEPT !.status = "REJECTED"])
               /\ portfolio' = [portfolio EXCEPT ![o.user] =
                                    update_buying_power(risk_service[w], o, FALSE)]
               /\ audit' = audit \o
                     << AuditEntry("RISK_LIMIT_VIOLATED", o.user, o.id, error_message),
                        AuditEntry("ORDER_REJECTED", o.user, 0, error_message) >>
               /\ Finish(w)
          ELSE /\ pc' = [pc EXCEPT ![w] = "reserve"]
               /\ UNCHANGED <<orders, portfolio, audit, order, risk_service, engine, frame, tx,
                              before>>
    /\ UNCHANGED <<order_book, risk_limit_enabled, positions, trades, call, backtests>>

\* views.py 217-251: the risk gate; a rejected order is saved REJECTED and
\* audited, and the request ends with a ValidationError.
Validate(w) ==
    /\ pc[w] = "validate"
    /\ LET o == order[w]
           error_message == validate_order(orders, o, risk_limits[o.user], risk_service[w])
       IN IF error_message # "ok"
          THEN /\ ~OrderLocked(w, o.id)
               /\ orders' = save_order([o EXCEPT !.status = "REJECTED"])
               /\ audit' = audit \o
                     << AuditEntry("RISK_LIMIT_VIOLATED", o.user, o.id, error_message),
                        AuditEntry("ORDER_REJECTED", o.user, 0, error_message) >>
               /\ Finish(w)
          ELSE /\ pc' = [pc EXCEPT ![w] = "reserve"]
               /\ UNCHANGED <<orders, audit, order, risk_service, engine, frame, tx, before>>
    /\ UNCHANGED <<portfolio, order_book, risk_limit_enabled, positions, trades, call, backtests>>

\* views.py 253-257: ORDER_CREATED is logged and update_buying_power(order,
\* is_filled=False) changes risk_service.portfolio and saves that object.
Reserve(w) ==
    /\ pc[w] = "reserve"
    /\ LET o == order[w]
           p == update_buying_power(risk_service[w], o, FALSE)
       IN /\ audit' = Append(audit, AuditEntry("ORDER_CREATED", o.user, o.id, ""))
          /\ risk_service' = [risk_service EXCEPT ![w] = p]
          /\ portfolio' = [portfolio EXCEPT ![o.user] = p]
    /\ pc' = [pc EXCEPT ![w] = "load"]
    /\ UNCHANGED <<orders, order_book, order, engine, frame, tx, before, risk_limit_enabled, positions, trades, call, backtests>>

\* views.py 260-261: OrderBook.objects.get and MatchingEngine.__init__, which
\* loads the asset's PENDING orders into a new cache.
Load(w) ==
    /\ pc[w] = "load"
    /\ \E rows \in QueryOrders(pending_orders(order[w].asset)) :
          engine' = [engine EXCEPT ![w] =
              [order_book |-> order_book[order[w].asset],
               cache |-> _load_orders([i \in DOMAIN rows |-> orders[rows[i]]])]]
    /\ pc' = [pc EXCEPT ![w] = "process"]
    /\ UNCHANGED <<orders, portfolio, order_book, audit, order, risk_service, frame, tx, before,
                   risk_limit_enabled, positions, trades, call, backtests>>

\* A fill that is applied to the incoming order only.
_execute_trade_orders_taker(o, opposite_order, size) ==
    << IF size = o.size THEN [o EXCEPT !.status = "FILLED"] ELSE [o EXCEPT !.size = @ - size],
       opposite_order >>

\* _execute_trade, matching_engine.py 130-150, on the Python objects: the pair
\* <<order, opposite_order>> after the updates.
_execute_trade_orders(o, opposite_order, size) ==
    << IF size = o.size THEN [o EXCEPT !.status = "FILLED"] ELSE [o EXCEPT !.size = @ - size],
       IF size = opposite_order.size THEN [opposite_order EXCEPT !.status = "FILLED"]
       ELSE [opposite_order EXCEPT !.size = @ - size] >>

_execute_trade_book(book, size, price) ==
    [book EXCEPT !.last_price = price, !.volume = @ + size]

\* _publish_trade_event, matching_engine.py 157-164: the dictionary it builds.
trade_event_of(book, o, opposite_order, size, price) ==
    [asset |-> book.asset, price |-> price, size |-> size,
     buyer_order_id |-> IF o.side = "BUY" THEN o.id ELSE opposite_order.id,
     seller_order_id |-> IF o.side = "SELL" THEN o.id ELSE opposite_order.id]

\* Table Trade as _execute_trade leaves it.  The function updates the two
\* orders and the order book and publishes an event; it holds no statement
\* that creates a Trade row, and neither does any other function of views.py,
\* matching_engine.py or risk_management.py (class Trade has no seq column
\* either).  The rows written for a fill are none.
_execute_trade_trades(o, opposite_order, size, price) == <<>>

\* views.py 262 -> MatchingEngine.process_order (transaction.atomic), up to the
\* statement that ends it:
\*  - a MARKET order facing an empty opposite side is saved REJECTED;
\*  - an order that does not cross (or has size 0) leaves _match_orders with
\*    (False, 0); a LIMIT order is then added to the cache and saved PENDING;
\*  - otherwise _execute_trade runs for the first order of the best level
\*    (orders and order book saved inside the transaction) and
\*    _publish_trade_event builds its event: the worker stands at line 166.
Process(w) ==
    /\ pc[w] = "process"
    /\ LET o == order[w]
           c == engine[w].cache
           price_map == opposite_price_map(c, o)
       IN IF o.order_type = "MARKET" /\ DOMAIN price_map = {}
          THEN /\ ~OrderLocked(w, o.id)
               /\ orders' = save_order([o EXCEPT !.status = "REJECTED"])
               /\ Finish(w)
          ELSE IF o.size > 0 /\ DOMAIN price_map # {}
                  /\ _is_price_matched(o, best_price(o, price_map))
          THEN LET opposite_order == price_map[best_price(o, price_map)][1]
                   size == match_size(o.size, opposite_order)
                   price == execution_price(o, opposite_order)
                   after == _execute_trade_orders(o, opposite_order, size)
                   book == _execute_trade_book(engine[w].order_book, size, price)
               IN /\ ~OrderLocked(w, o.id)
                  /\ ~OrderLocked(w, opposite_order.id)
                  /\ ~BookLocked(w, book.asset)
                  /\ order' = [order EXCEPT ![w] = after[1]]
                  /\ engine' = [engine EXCEPT ![w] =
                        [order_book |-> book,
                         cache |-> IF size = opposite_order.size
                                   THEN remove_order(c, opposite_order)
                                   ELSE replace_order(c, after[2])]]
                  /\ tx' = [tx EXCEPT ![w] =
                        [orders |-> (o.id :> after[1]) @@ (opposite_order.id :> after[2]),
                         order_book |-> book]]
                  /\ frame' = [frame EXCEPT ![w] =
                        [remaining_size |-> o.size, filled_amount |-> 0,
                         opposite_order |-> after[2],
                         match_size |-> size, execution_price |-> price,
                         trade_event |-> trade_event_of(book, after[1], after[2], size, price)]]
                  /\ pc' = [pc EXCEPT ![w] = "publish"]
                  /\ UNCHANGED <<orders, risk_service, before>>
          ELSE /\ ~OrderLocked(w, o.id)
               /\ orders' = IF o.order_type = "LIMIT"
                            THEN save_order([o EXCEPT !.status = "PENDING"])
                            ELSE orders
               /\ Finish(w)
    /\ UNCHANGED <<portfolio, order_book, audit, risk_limit_enabled, positions, trades, call, backtests>>

\* A publication that succeeds: the transaction commits what it has written.
Publish_commit(w) ==
    /\ pc[w] = "publish"
    /\ orders' = [i \in DOMAIN orders |-> RowWritten(w, i)]
    /\ order_book' = [order_book EXCEPT ![tx[w].order_book.asset] = tx[w].order_book]
    /\ Finish(w)
    /\ UNCHANGED <<portfolio, audit, risk_limit_enabled, positions, trades, call, backtests>>

\* matching_engine.py 166: MatchingEngine has no attribute _redis (only
\* OrderBookCache sets one), so the statement raises AttributeError.  The
\* exception leaves both transaction.atomic blocks, which roll back every row
\* written by process_order, and perform_create does not catch it.
Publish(w) ==
    /\ pc[w] = "publish"
    /\ Finish(w)
    /\ UNCHANGED <<orders, portfolio, order_book, audit, risk_limit_enabled, positions, trades, call, backtests>>

----
(* OrderViewSet.cancel *)

\* A cancellation that accepts an order of any status.
CancelGet_any(w, u, id) ==
    /\ pc[w] = "idle"
    /\ IF id \in 1..Len(orders) /\ orders[id].user = u
       THEN /\ order' = [order EXCEPT ![w] = orders[id]]
            /\ pc' = [pc EXCEPT ![w] = "cancel"]
       ELSE UNCHANGED <<order, pc>>
    /\ UNCHANGED <<orders, portfolio, order_book, audit, risk_service, engine, frame, tx, before,
                   risk_limit_enabled, positions, trades, call, backtests>>

\* views.py 280-294: get_object() looks the order up among the requesting
\* user's orders; a missing row, or a status other than PENDING, ends the
\* request with no write.
CancelGet(w, u, id) ==
    /\ pc[w] = "idle"
    /\ IF id \in 1..Len(orders) /\ orders[id].user = u /\ orders[id].status = "PENDING"
       THEN /\ order' = [order EXCEPT ![w] = orders[id]]
            /\ pc' = [pc EXCEPT ![w] = "cancel"]
       ELSE UNCHANGED <<order, pc>>
    /\ UNCHANGED <<orders, portfolio, order_book, audit, risk_service, engine, frame, tx, before,
                   risk_limit_enabled, positions, trades, call, backtests>>

\* A cancellation that gives no buying power back.
CancelCommit_unrestored(w) ==
    /\ pc[w] = "cancel"
    /\ LET o == [order[w] EXCEPT !.status = "CANCELLED"]
       IN /\ ~OrderLocked(w, o.id)
          /\ orders' = save_order(o)
          /\ audit' = Append(audit, AuditEntry("ORDER_CANCELLED", o.user, o.id, ""))
    /\ Finish(w)
    /\ UNCHANGED <<portfolio, order_book, risk_limit_enabled, positions, trades, call, backtests>>

\* views.py 296-306: the order is saved CANCELLED, ORDER_CANCELLED is logged
\* and, for a BUY, a new RiskManagementService restores the buying power.
CancelCommit(w) ==
    /\ pc[w] = "cancel"
    /\ LET o == [order[w] EXCEPT !.status = "CANCELLED"]
       IN /\ ~OrderLocked(w, o.id)
          /\ orders' = save_order(o)
          /\ audit' = Append(audit, AuditEntry("ORDER_CANCELLED", o.user, o.id, ""))
          /\ portfolio' = IF o.side = "BUY"
                          THEN [portfolio EXCEPT ![o.user] = restore_buying_power(@, o)]
                          ELSE portfolio
    /\ Finish(w)
    /\ UNCHANGED <<order_book, risk_limit_enabled, positions, trades, call, backtests>>

\* The HTTP status of the response of cancel, views.py 278-321.  get_object()
\* looks the id up in get_queryset(), the orders of the requesting user, and
\* raises Http404 when no row matches; Http404 is not Order.DoesNotExist, so
\* the handler for it (404) is passed over and `except Exception` answers 500.
\* A row of another user is never returned, so the 403 branch is never taken.
cancel_response(u, id) ==
    IF ~(id \in 1..Len(orders) /\ orders[id].user = u) THEN "500"
    ELSE IF orders[id].user # u THEN "403"
    ELSE IF orders[id].status # "PENDING" THEN "400"
    ELSE "200"

\* A whole request of cancel served with no other request in between, its
\* response recorded.
Cancel(w, u, id) ==
    /\ pc[w] = "idle"
    /\ call' = [fn |-> "cancel", in |-> <<u, id>>, out |-> cancel_response(u, id)]
    /\ IF cancel_response(u, id) = "200"
       THEN LET o == [orders[id] EXCEPT !.status = "CANCELLED"]
            IN /\ orders' = save_order(o)
               /\ audit' = Append(audit, AuditEntry("ORDER_CANCELLED", o.user, o.id, ""))
               /\ portfolio' = IF o.side = "BUY"
                               THEN [portfolio EXCEPT ![o.user] = restore_buying_power(@, o)]
                               ELSE portfolio
       ELSE UNCHANGED <<orders, audit, portfolio>>
    /\ UNCHANGED <<order_book, pc, order, risk_service, engine, frame, tx, before,
                   risk_limit_enabled, positions, trades, backtests>>

----
(* OrderBookViewSet.depth *)

\* float(Decimal): the amounts of the model are integers far below 2^53, which
\* a double holds exactly.
float(x) == x

\* .filter(asset=..., side=..., status='PENDING'): the ids of the rows.
depth_rows(a, sd) ==
    {i \in 1..Len(orders) :
        orders[i].asset = a /\ orders[i].side = sd /\ orders[i].status = "PENDING"}

\* .values('price').annotate(total_size=Sum('size')): one row for each price.
total_size(a, sd, p) ==
    LET S == {i \in depth_rows(a, sd) : orders[i].price = p}
    IN SumOver([i \in S |-> orders[i].size], S)

\* .order_by('-price') for descending, .order_by('price') otherwise.
RECURSIVE order_by(_, _)
order_by(P, descending) ==
    IF P = {} THEN <<>>
    ELSE LET p == IF descending THEN Max(P) ELSE Min(P)
         IN <<p>> \o order_by(P \ {p}, descending)

\* A side whose levels are listed from the highest price down, whatever the side.
depth_side_descending(a, sd, depth_levels) ==
    LET P == {orders[i].price : i \in depth_rows(a, sd)}
        sorted == order_by(P, TRUE)
        rows == SubSeq(sorted, 1, Min({depth_levels, Len(sorted)}))
    IN [k \in DOMAIN rows |->
           [price |-> float(rows[k]),
            size |-> float(total_size(a, sd, rows[k])),
            total |-> SumOver([j \in 1..k |-> float(total_size(a, sd, rows[j]))], 1..k)
                        * float(rows[k])]]

\* One side of the response, views.py 470-484 and 543-561: the grouped rows in
\* price order cut to depth_levels (the slice [:depth_levels]), each with its
\* price, its size and the running size total times its price.
depth_side(a, sd, depth_levels) ==
    LET P == {orders[i].price : i \in depth_rows(a, sd)}
        sorted == order_by(P, sd = "BUY")
        rows == SubSeq(sorted, 1, Min({depth_levels, Len(sorted)}))
    IN [k \in DOMAIN rows |->
           [price |-> float(rows[k]),
            size |-> float(total_size(a, sd, rows[k])),
            total |-> SumOver([j \in 1..k |-> float(total_size(a, sd, rows[j]))], 1..k)
                        * float(rows[k])]]

\* The request GET depth?levels=n for the order book of asset a, when the
\* asset has a PENDING order: the response <<bids, asks>>.  (With no PENDING
\* order the view answers from the quotes of an external service.)
Depth ==
    /\ call.fn = "depth" /\ call.out = <<>>
    /\ depth_rows(call.in.asset, "BUY") \cup depth_rows(call.in.asset, "SELL") # {}
    /\ call' = [call EXCEPT !.out =
                   << depth_side(call.in.asset, "BUY", call.in.levels),
                      depth_side(call.in.asset, "SELL", call.in.levels) >>]
    /\ UNCHANGED <<orders, portfolio, order_book, audit, pc, order, risk_service, engine, frame,
                   tx, before, risk_limit_enabled, positions, trades, backtests>>

----
(* BacktestEngine.run *)

BacktestIds == {1, 2}
MaxRuns == 2    \* calls of run on one BacktestRun

\* A handler that lets the exception pass and leaves the row as it is.
run_except_unhandled(row) == [row EXCEPT !.pc = "idle", !.outcome = "raised"]

\* backtesting_engine.py 56-61: an Exception raised anywhere in the try block
\* is caught, the run is saved FAILED and the exception is raised again.
run_except(row) == [row EXCEPT !.status = "FAILED", !.pc = "idle", !.outcome = "raised"]

\* A statement of the try block: it completes and the run goes on at `next`,
\* or it raises.
RunStatement(b, at, next) ==
    /\ b \in DOMAIN backtests /\ backtests[b].pc = at
    /\ \E ok \in BOOLEAN :
          backtests' = [backtests EXCEPT ![b] =
                           IF ok THEN [@ EXCEPT !.pc = next] ELSE run_except(@)]
    /\ UNCHANGED <<orders, portfolio, order_book, audit, pc, order, risk_service, engine, frame,
                   tx, before, risk_limit_enabled, positions, trades, call>>

\* 32-34: run is called on a BacktestRun (BacktestEngine.run tests no status)
\* and saves it RUNNING.
RunBegin(b) ==
    /\ b \in DOMAIN backtests /\ backtests[b].pc = "idle" /\ backtests[b].runs < MaxRuns
    /\ backtests' = [backtests EXCEPT ![b] =
                         [@ EXCEPT !.status = "RUNNING", !.pc = "fetch", !.outcome = "",
                                   !.runs = @ + 1]]
    /\ UNCHANGED <<orders, portfolio, order_book, audit, pc, order, risk_service, engine, frame,
                   tx, before, risk_limit_enabled, positions, trades, call>>

\* 37-40: the data is fetched; no data, or an exception of the fallback
\* generator, raises.
RunFetch(b) == RunStatement(b, "fetch", "strategy")

\* 43: _execute_strategy
RunStrategy(b) == RunStatement(b, "strategy", "metrics")

\* 46: _calculate_metrics
RunMetrics(b) == RunStatement(b, "metrics", "save_results")

\* 49: _save_results creates the BacktestResult row of the run; the relation
\* is one-to-one, so the insert raises when the run has a result already, and
\* it raises on a value the columns do not hold.
RunSaveResults(b) ==
    /\ b \in DOMAIN backtests /\ backtests[b].pc = "save_results"
    /\ \E ok \in BOOLEAN :
          backtests' = [backtests EXCEPT ![b] =
                           IF ok /\ ~@.result THEN [@ EXCEPT !.result = TRUE, !.pc = "complete"]
                           ELSE run_except(@)]
    /\ UNCHANGED <<orders, portfolio, order_book, audit, pc, order, risk_service, engine, frame,
                   tx, before, risk_limit_enabled, positions, trades, call>>

\* 52-54: the run is saved COMPLETED and run returns.
RunComplete(b) ==
    /\ b \in DOMAIN backtests /\ backtests[b].pc = "complete"
    /\ backtests' = [backtests EXCEPT ![b] =
                         [@ EXCEPT !.status = "COMPLETED", !.pc = "idle", !.outcome = "returned"]]
    /\ UNCHANGED <<orders, portfolio, order_book, audit, pc, order, risk_service, engine, frame,
                   tx, before, risk_limit_enabled, positions, trades, call>>

----
(* RiskLimitViewSet.toggle *)

Toggles == Cardinality({k \in DOMAIN audit : audit[k].action = "PORTFOLIO_UPDATED"})

\* views_extended.py 192-212: the user's RiskLimit row is read, enabled is
\* negated and saved, and the change is audited.
Toggle(w, u) ==
    /\ pc[w] = "idle"
    /\ Toggles < MaxToggles
    /\ risk_limit_enabled' = [risk_limit_enabled EXCEPT ![u] = ~@]
    /\ audit' = Append(audit, AuditEntry("PORTFOLIO_UPDATED", u, 0, "risk_limits_toggled"))
    /\ UNCHANGED <<orders, portfolio, order_book, pc, order, risk_service, engine, frame, tx, before,
                   positions, trades, call, backtests>>

----
(* Specifications *)

\* The steps of a submission.
SubmitStep(w, maxOrders, users, assets, prices, sizes, types) ==
    \/ /\ Len(orders) < maxOrders
       /\ \E u \in users, a \in assets, p \in prices, s \in sizes,
             t \in types, sd \in Sides : Create(w, u, a, p, s, t, sd)
    \/ Validate(w)
    \/ Reserve(w)
    \/ Load(w)
    \/ Process(w)
    \/ Publish(w)

StepTyped(w, maxOrders, users, assets, prices, sizes, types) ==
    \/ SubmitStep(w, maxOrders, users, assets, prices, sizes, types)
    \/ \E u \in users, id \in 1..Len(orders) : CancelGet(w, u, id)
    \/ CancelCommit(w)

StepWith(w, maxOrders, users, assets, prices, sizes) ==
    StepTyped(w, maxOrders, users, assets, prices, sizes, OrderTypes)

Step(w, maxOrders, users, assets) == StepWith(w, maxOrders, users, assets, Prices, Sizes)

\* Requests served one after the other.
NextSeq == Step("w1", MaxOrders, Users, {"A"})

SpecSeq == Init /\ [][NextSeq]_vars

\* Requests of one user on one asset, served one after the other.
NextMatch == Step("w1", MaxOrdersMatch, {"u1"}, {"A"})

SpecMatch == Init /\ [][NextMatch]_vars

\* Submissions of LIMIT orders of one user on one asset, served one after the
\* other, at the lowest and the highest price and size.
NextLimit ==
    SubmitStep("w1", MaxOrders, {"u1"}, {"A"}, {1, MaxPrice}, {1, MaxSize}, {"LIMIT"})

SpecLimit == Init /\ [][NextLimit]_vars

\* LIMIT orders and cancellations of two users on one asset, served one after
\* the other; a cancellation names an order of the table or the next free id.
NextCancel ==
    \/ SubmitStep("w1", MaxOrdersMatch, Users, {"A"}, Prices, Sizes, {"LIMIT"})
    \/ \E u \in Users, id \in 1..(Len(orders) + 1) : Cancel("w1", u, id)

SpecCancel == Init /\ [][NextCancel]_vars

\* Requests of depth on an Order table that submissions and one cancellation
\* have left: up to MaxOrders LIMIT orders on asset A, every one still PENDING
\* (an order that crossed stays PENDING too, its fill rolled back), the BUY
\* orders of u1 within its cash and the SELL orders of u2; then, optionally,
\* a cancelled order on A followed by an open order on asset B, both of u2.
MaxLevels == 2

DepthOrder(id, u, a, p, s, sd, st) ==
    [id |-> id, user |-> u, asset |-> a, price |-> p, size |-> s,
     order_type |-> "LIMIT", side |-> sd, status |-> st]

DepthInputs == [price : Prices, size : Sizes, side : Sides]

DepthTables == UNION {[1..n -> DepthInputs] : n \in 1..MaxOrders}

\* The notional of the BUY rows of a table.
RECURSIVE BuyNotional(_)
BuyNotional(t) ==
    IF t = <<>> THEN 0
    ELSE (IF Head(t).side = "BUY" THEN Head(t).price * Head(t).size ELSE 0)
            + BuyNotional(Tail(t))

InitDepth ==
    /\ \E t \in DepthTables, cancelled \in BOOLEAN :
          LET n == Len(t)
              rows == [i \in 1..n |->
                         DepthOrder(i, IF t[i].side = "BUY" THEN "u1" ELSE "u2", "A",
                                    t[i].price, t[i].size, t[i].side, "PENDING")]
              c == IF cancelled
                   THEN <<DepthOrder(n + 1, "u2", "A", MaxPrice, 1, "BUY", "CANCELLED")>>
                   ELSE <<>>
              o == IF cancelled
                   THEN <<DepthOrder(n + Len(c) + 1, "u2", "B", MaxPrice, 1, "BUY", "PENDING")>>
                   ELSE <<>>
              all == rows \o c \o o
          IN /\ BuyNotional(t) <= InitCash
             /\ orders = all
             /\ audit = [i \in 1..Len(all) |-> AuditEntry("ORDER_CREATED", all[i].user, i, "")]
                           \o (IF cancelled
                               THEN <<AuditEntry("ORDER_CANCELLED", "u2", n + 1, "")>>
                               ELSE <<>>)
             /\ portfolio =
                   [u \in Users |->
                       [cash_balance |-> InitCash,
                        buying_power |-> IF u = "u1" THEN InitCash - BuyNotional(t)
                                         ELSE IF cancelled THEN InitCash - MaxPrice
                                         ELSE InitCash]]
    /\ call \in [fn : {"depth"}, in : [asset : {"A"}, levels : 1..MaxLevels], out : {<<>>}]
    /\ order_book = [a \in Assets |-> [asset |-> a, last_price |-> 0, volume |-> 0]]
    /\ pc = [w \in Workers |-> "idle"]
    /\ order = [w \in Workers |-> NoOrder]
    /\ risk_service = [w \in Workers |-> NoPortfolio]
    /\ engine = [w \in Workers |-> NoEngine]
    /\ frame = [w \in Workers |-> NoFrame]
    /\ tx = [w \in Workers |-> NoTx]
    /\ before = [w \in Workers |-> NoPortfolio]
    /\ risk_limit_enabled = [u \in Users |-> TRUE]
    /\ positions = <<>>
    /\ trades = <<>>
    /\ backtests = NoBacktests

NextDepth == Depth

SpecDepth == InitDepth /\ [][NextDepth]_vars

\* Runs of BacktestEngine on two BacktestRun rows created PENDING.
InitBacktest ==
    /\ orders = <<>>
    /\ portfolio = [u \in Users |-> [cash_balance |-> InitCash, buying_power |-> InitCash]]
    /\ order_book = [a \in Assets |-> [asset |-> a, last_price |-> 0, volume |-> 0]]
    /\ audit = <<>>
    /\ pc = [w \in Workers |-> "idle"]
    /\ order = [w \in Workers |-> NoOrder]
    /\ risk_service = [w \in Workers |-> NoPortfolio]
    /\ engine = [w \in Workers |-> NoEngine]
    /\ frame = [w \in Workers |-> NoFrame]
    /\ tx = [w \in Workers |-> NoTx]
    /\ before = [w \in Workers |-> NoPortfolio]
    /\ risk_limit_enabled = [u \in Users |-> TRUE]
    /\ positions = <<>>
    /\ trades = <<>>
    /\ call = NoCall
    /\ backtests = [b \in BacktestIds |->
                       [status |-> "PENDING", result |-> FALSE, pc |-> "idle", outcome |-> "",
                        runs |-> 0]]

NextBacktest ==
    \E b \in BacktestIds :
        \/ RunBegin(b)
        \/ RunFetch(b)
        \/ RunStrategy(b)
        \/ RunMetrics(b)
        \/ RunSaveResults(b)
        \/ RunComplete(b)

SpecBacktest == InitBacktest /\ [][NextBacktest]_vars

\* Requests of one user on one asset, served one after the other, with every
\* price and size the serializer accepts and with the toggle of the limits.
NextRisk ==
    \/ StepWith("w1", MaxOrdersRisk, {"u1"}, {"A"}, Prices0, Sizes0)
    \/ Toggle("w1", "u1")

SpecRisk == Init /\ [][NextRisk]_vars

\* Calls of update_position on a Position table and a trade drawn from bounded
\* sets.  A stored row has quantity > 0: _update_user_position deletes every
\* row it leaves at quantity <= 0.
PositionKeys == Users \X {"A"}
PositionRows == [quantity : 1..MaxQuantity, average_cost : Prices]
PositionTables == UNION {[K -> PositionRows] : K \in SUBSET PositionKeys}
TradeInputs ==
    [buyer : Users, seller : Users, asset : {"A"}, price : Prices, size : Sizes, today : {TRUE}]

InitPosition ==
    /\ orders = <<>>
    /\ portfolio = [u \in Users |-> [cash_balance |-> InitCash, buying_power |-> InitCash]]
    /\ order_book = [a \in Assets |-> [asset |-> a, last_price |-> 0, volume |-> 0]]
    /\ audit = <<>>
    /\ pc = [w \in Workers |-> "idle"]
    /\ order = [w \in Workers |-> NoOrder]
    /\ risk_service = [w \in Workers |-> NoPortfolio]
    /\ engine = [w \in Workers |-> NoEngine]
    /\ frame = [w \in Workers |-> NoFrame]
    /\ tx = [w \in Workers |-> NoTx]
    /\ before = [w \in Workers |-> NoPortfolio]
    /\ risk_limit_enabled = [u \in Users |-> TRUE]
    /\ positions \in PositionTables
    /\ trades = <<>>
    /\ backtests = NoBacktests
    /\ call \in [fn : {"update_position"}, in : TradeInputs, out : {""}]

CallUpdatePosition ==
    /\ call.fn = "update_position" /\ call.out = ""
    /\ positions' = update_position(positions, call.in)
    /\ call' = [call EXCEPT !.out = "done"]
    /\ UNCHANGED <<orders, portfolio, order_book, audit, pc, order, risk_service, engine, frame,
                   tx, before, risk_limit_enabled, trades, backtests>>

NextPosition == CallUpdatePosition

SpecPosition == InitPosition /\ [][NextPosition]_vars

\* Calls of validate_order as perform_create makes them: the order has been
\* inserted (status PENDING) and is the last row of the Order table; the
\* user's limits, buying power, position, other open orders and the Trade
\* table are drawn from bounded sets.
LimitValues == {1, MaxLimit}
LimitRows ==
    [enabled : BOOLEAN, max_order_size : LimitValues, max_position_size : LimitValues,
     max_daily_loss : LimitValues, max_daily_trades : LimitValues,
     max_open_orders : LimitValues]

GateOrder(id, p, s, sd) ==
    [id |-> id, user |-> "u1", asset |-> "A", price |-> p, size |-> s,
     order_type |-> "LIMIT", side |-> sd, status |-> "PENDING"]

\* k open orders of the user, then the order under validation.
GateOrders(k, p, s, sd) ==
    [i \in 1..(k + 1) |-> IF i <= k THEN GateOrder(i, 1, 1, "SELL") ELSE GateOrder(i, p, s, sd)]

\* Trade rows: of today with the user as buyer, as seller or as both, and one
\* of an earlier day.
TradeRows ==
    [buyer : {"u1"}, seller : {"u2"}, price : {1}, size : {1}, today : {TRUE}] \cup
    [buyer : {"u2"}, seller : {"u1"}, price : {1}, size : {1}, today : {TRUE}] \cup
    [buyer : {"u1"}, seller : {"u1"}, price : {1}, size : {1}, today : {TRUE}] \cup
    [buyer : {"u1"}, seller : {"u2"}, price : {MaxPrice}, size : {1}, today : {FALSE}]

TradeTables == UNION {[1..n -> TradeRows] : n \in 0..MaxTrades}

InitGate ==
    /\ \E k \in 0..MaxOpen, p \in Prices, s \in Sizes, sd \in Sides :
          /\ orders = GateOrders(k, p, s, sd)
          /\ \E limits \in LimitRows :
                call = [fn |-> "validate_order",
                        in |-> [order |-> orders[k + 1], limits |-> limits], out |-> ""]
    /\ \E b \in {0, MaxPrice, InitCash} :
          portfolio = [u \in Users |-> [cash_balance |-> InitCash,
                                        buying_power |-> IF u = "u1" THEN b ELSE InitCash]]
    /\ order_book = [a \in Assets |-> [asset |-> a, last_price |-> 0, volume |-> 0]]
    /\ audit = <<>>
    /\ pc = [w \in Workers |-> "idle"]
    /\ order = [w \in Workers |-> NoOrder]
    /\ risk_service = [w \in Workers |-> NoPortfolio]
    /\ engine = [w \in Workers |-> NoEngine]
    /\ frame = [w \in Workers |-> NoFrame]
    /\ tx = [w \in Workers |-> NoTx]
    /\ before = [w \in Workers |-> NoPortfolio]
    /\ risk_limit_enabled = [u \in Users |-> TRUE]
    /\ positions \in {<<>>, <<"u1", "A">> :> [quantity |-> MaxQuantity, average_cost |-> 1]}
    /\ trades \in TradeTables
    /\ backtests = NoBacktests

CallValidateOrder ==
    /\ call.fn = "validate_order" /\ call.out = ""
    /\ call' = [call EXCEPT !.out =
                   validate_order(orders, call.in.order, call.in.limits,
                                  portfolio[call.in.order.user])]
    /\ UNCHANGED <<orders, portfolio, order_book, audit, pc, order, risk_service, engine, frame,
                   tx, before, risk_limit_enabled, positions, trades, backtests>>

NextGate == CallValidateOrder

SpecGate == InitGate /\ [][NextGate]_vars

\* Two workers serving requests of one user at the same time.
Next == \E w \in Workers : Step(w, MaxOrdersConc, {"u1"}, Assets)

Spec == Init /\ [][Next]_vars

----
(* Properties *)

OrderIds == 1..Len(orders)

\* The open orders of one side of an asset's book, as stored.
OpenOrders(a, sd) ==
    {i \in OrderIds : orders[i].asset = a /\ orders[i].side = sd /\ orders[i].status = "PENDING"}

Opposite(sd) == IF sd = "BUY" THEN "SELL" ELSE "BUY"

\* The best price among a non-empty set of orders resting on side sd.
BestOf(S, sd) ==
    IF sd = "SELL" THEN Min({orders[i].price : i \in S}) ELSE Max({orders[i].price : i \in S})

\* Order j has priority over order m (both rest on the same side).
HasPriority(j, m) ==
    \/ orders[m].side = "SELL" /\ orders[j].price < orders[m].price
    \/ orders[m].side = "BUY" /\ orders[j].price > orders[m].price
    \/ orders[j].price = orders[m].price /\ j < m

\* A worker has run _execute_trade and stands before the publication.
Filling(w) == pc[w] = "publish"

\* C1: price-time priority.  Whenever a fill has been executed, the maker is
\* the earliest-inserted open order at the best opposite price: no other open
\* order of the maker's side has a better price, or the same price and an
\* earlier insertion.
C1_PriceTimePriority ==
    \A w \in Workers : Filling(w) =>
        LET m == frame[w].opposite_order.id
        IN \A j \in OpenOrders(orders[m].asset, orders[m].side) \ {m} : ~HasPriority(j, m)

\* C2: crossing rule.  When an order is matched against a non-empty opposite
\* side, a fill is executed iff the order is a MARKET order, or a LIMIT BUY
\* priced at or above the best ask, or a LIMIT SELL priced at or below the best
\* bid; the fill is at the best opposite price, which is never worse than the
\* limit of a LIMIT order.
C2_Step(w) ==
    LET o == order[w]
        opp == OpenOrders(o.asset, Opposite(o.side))
        best == BestOf(opp, Opposite(o.side))
        crosses == \/ o.order_type = "MARKET"
                   \/ o.order_type = "LIMIT" /\ o.side = "BUY" /\ o.price >= best
                   \/ o.order_type = "LIMIT" /\ o.side = "SELL" /\ o.price <= best
    IN (pc[w] = "process" /\ pc'[w] # "process" /\ opp # {}) =>
          /\ Filling(w)' <=> crosses
          /\ Filling(w)' => frame'[w].execution_price = best
          /\ (Filling(w)' /\ o.order_type = "LIMIT" /\ o.side = "BUY")
                => frame'[w].execution_price <= o.price
          /\ (Filling(w)' /\ o.order_type = "LIMIT" /\ o.side = "SELL")
                => frame'[w].execution_price >= o.price

C2_CrossingRule == [][\A w \in Workers : C2_Step(w)]_vars

\* C2 witness: a LIMIT BUY has been filled against an ask at its own price.
C2_Witness ==
    \E w \in Workers :
        /\ Filling(w)
        /\ order[w].order_type = "LIMIT" /\ order[w].side = "BUY"
        /\ orders[frame[w].opposite_order.id].price = order[w].price

\* C3: maker-side pricing.  Every fill is executed at the price of the resting
\* order, for the minimum of the two remaining sizes, and the order book's
\* last_price and the price of the trade event are that price.
C3_MakerPrice ==
    \A w \in Workers : Filling(w) =>
        LET maker == orders[frame[w].opposite_order.id]
            taker == orders[order[w].id]
        IN /\ frame[w].execution_price = maker.price
           /\ frame[w].match_size = Min({taker.size, maker.size})
           /\ tx[w].order_book.last_price = maker.price
           /\ frame[w].trade_event.price = maker.price

\* C3 witness: a fill between a LIMIT order and a resting order of another
\* price and another size.
C3_Witness ==
    \E w \in Workers :
        /\ Filling(w)
        /\ order[w].order_type = "LIMIT"
        /\ orders[frame[w].opposite_order.id].price # order[w].price
        /\ orders[frame[w].opposite_order.id].size # orders[order[w].id].size

AllIdle == \A w \in Workers : pc[w] = "idle"

Logged(action, id) == \E k \in DOMAIN audit : audit[k].action = action /\ audit[k].order_id = id

NoCancellation == \A k \in DOMAIN audit : audit[k].action # "ORDER_CANCELLED"

Notional(o) == o.price * o.size

\* The request that created a row.
Request(o) ==
    [user |-> o.user, asset |-> o.asset, price |-> o.price, size |-> o.size,
     order_type |-> o.order_type, side |-> o.side]

\* The stored result of one submission that runs alone on the database db:
\* rejected by the risk gate, or admitted (buying power reserved) and then
\* rejected for lack of liquidity or left PENDING.
SerialSubmit(db, r) ==
    LET o == [id |-> Len(db.orders) + 1, user |-> r.user, asset |-> r.asset, price |-> r.price,
              size |-> r.size, order_type |-> r.order_type, side |-> r.side,
              status |-> "PENDING"]
        rows == Append(db.orders, o)
        p == db.portfolio[o.user]
        admitted == validate_order(rows, o, risk_limits[o.user], p) = "ok"
        opp == {i \in 1..Len(rows) : /\ rows[i].asset = o.asset
                                      /\ rows[i].side = Opposite(o.side)
                                      /\ rows[i].status = "PENDING"}
        status == IF ~admitted \/ (o.order_type = "MARKET" /\ opp = {})
                  THEN "REJECTED" ELSE "PENDING"
    IN [orders |-> Append(db.orders, [o EXCEPT !.status = status]),
        portfolio |-> IF admitted
                      THEN [db.portfolio EXCEPT ![o.user] = update_buying_power(p, o, FALSE)]
                      ELSE db.portfolio,
        order_book |-> db.order_book]

\* A submission that runs alone ends as SerialSubmit says.
SerialSubmitStep(w) ==
    (pc[w] \in {"validate", "process", "publish"} /\ pc'[w] = "idle") =>
        LET id == order[w].id
            db == [orders |-> SubSeq(orders, 1, id - 1),
                   portfolio |-> [portfolio EXCEPT ![orders[id].user] = before[w]],
                   order_book |-> order_book]
        IN Len(orders) = id =>
              [orders |-> orders', portfolio |-> portfolio', order_book |-> order_book']
                  = SerialSubmit(db, Request(orders[id]))

SerialSubmitAgrees == [][\A w \in Workers : SerialSubmitStep(w)]_vars

InitDb ==
    [orders |-> <<>>,
     portfolio |-> [u \in Users |-> [cash_balance |-> InitCash, buying_power |-> InitCash]],
     order_book |-> [a \in Assets |-> [asset |-> a, last_price |-> 0, volume |-> 0]]]

\* C4: two submissions for the same asset that may overlap end in the state
\* that running them one after the other, in one of the two orders, produces
\* (status of each order, every portfolio, the order book).
C4_Serializable ==
    (AllIdle /\ Len(orders) = 2 /\ orders[1].asset = orders[2].asset /\ NoCancellation) =>
        LET r1 == Request(orders[1])
            r2 == Request(orders[2])
            d12 == SerialSubmit(SerialSubmit(InitDb, r1), r2)
            d21 == SerialSubmit(SerialSubmit(InitDb, r2), r1)
            now == <<orders[1].status, orders[2].status, portfolio, order_book>>
        IN \/ now = <<d12.orders[1].status, d12.orders[2].status, d12.portfolio, d12.order_book>>
           \/ now = <<d21.orders[2].status, d21.orders[1].status, d21.portfolio, d21.order_book>>

\* C5: an order whose cancellation has been committed receives no fill.
C5_CancelledNotFilled ==
    \A w \in Workers : Filling(w) =>
        orders[frame[w].opposite_order.id].status # "CANCELLED"

\* C6: two BUY orders of one user are not both admitted by the risk gate when
\* their combined notional exceeds the buying power the user had.
C6_NotBothAdmitted ==
    NoCancellation =>
        \A i, j \in OrderIds :
            ( /\ i < j
              /\ orders[i].user = orders[j].user
              /\ orders[i].side = "BUY" /\ orders[j].side = "BUY"
              /\ Logged("ORDER_CREATED", i) /\ Logged("ORDER_CREATED", j) )
            => Notional(orders[i]) + Notional(orders[j]) <= InitCash

\* The buying power reserved (negative) or restored (positive) by the audited
\* events of user u.
RECURSIVE Ledger(_, _)
Ledger(log, u) ==
    IF log = <<>> THEN 0
    ELSE LET e == Head(log)
             o == orders[e.order_id]
         IN (IF e.user = u /\ e.order_id # 0 /\ o.side = "BUY"
             THEN IF e.action = "ORDER_CREATED" THEN -Notional(o)
                  ELSE IF e.action = "ORDER_CANCELLED" THEN Notional(o)
                  ELSE 0
             ELSE 0) + Ledger(Tail(log), u)

\* C7: with two admitted orders of a user on different assets, once all
\* submissions and cancellations are over the buying power is the initial
\* value minus every reservation made plus every restoration made.
C7_NoLostUpdate ==
    ( /\ AllIdle
      /\ Len(orders) = 2 /\ orders[1].asset # orders[2].asset
      /\ Logged("ORDER_CREATED", 1) /\ Logged("ORDER_CREATED", 2) ) =>
        \A u \in Users : portfolio[u].buying_power = InitCash + Ledger(audit, u)

\* The same without the premise on the assets (holds when requests do not overlap).
LedgerBalanced ==
    AllIdle => \A u \in Users : portfolio[u].buying_power = InitCash + Ledger(audit, u)

\* The orders of a cache, level by level.
Levels(c) == {c.bids[p] : p \in DOMAIN c.bids} \cup {c.asks[p] : p \in DOMAIN c.asks}

\* C8: a LIMIT order left with unfilled size rests at the tail of its price
\* level: in the book a later submission works on, the orders of a level
\* stand in the order in which they came to rest; and an order that has
\* received a fill and keeps a remainder has status PART_FILLED.
C8_RestsAtTail ==
    \A w \in Workers :
        /\ pc[w] = "process" =>
              \A level \in Levels(engine[w].cache) :
                  \A i, j \in DOMAIN level :
                      (i < j /\ level[i].id # order[w].id /\ level[j].id # order[w].id)
                          => level[i].id < level[j].id
        /\ (Filling(w) /\ order[w].order_type = "LIMIT" /\ order[w].status # "FILLED")
              => order[w].status = "PART_FILLED"

\* C9: no MARKET order is a resident of the book that a later submission
\* loads, and no fill is executed against a MARKET order.
C9_NoMarketResident ==
    \A w \in Workers :
        /\ pc[w] \in {"process", "publish"} =>
              \A level \in Levels(engine[w].cache) :
                  \A i \in DOMAIN level :
                      level[i].id # order[w].id => level[i].order_type # "MARKET"
        /\ Filling(w) => frame[w].opposite_order.order_type # "MARKET"

\* C10: a MARKET order submitted while the opposite side of the book is empty
\* ends REJECTED, and the submitter's portfolio, the order book and every
\* other order are as they were before the submission.
C10_Step(w) ==
    LET o == order[w]
    IN ( /\ pc[w] \in {"validate", "process", "publish"} /\ pc'[w] = "idle"
         /\ o.order_type = "MARKET"
         /\ OpenOrders(o.asset, Opposite(o.side)) = {} )
       => /\ orders'[o.id].status = "REJECTED"
          /\ \A i \in OrderIds \ {o.id} : orders'[i] = orders[i]
          /\ portfolio' = [portfolio EXCEPT ![o.user] = before[w]]
          /\ order_book' = order_book

C10_MarketNoLiquidity == [][\A w \in Workers : C10_Step(w)]_vars
\* A worker is inside perform_create.
Submitting(w) == pc[w] \in {"validate", "reserve", "load", "process", "publish"}

\* The submission that created order i is over.
Submitted(i) == \A w \in Workers : Submitting(w) => order[w].id # i

\* C11: an order submitted with size 0 is never admitted by the risk gate, has
\* status REJECTED once its submission is over, is never a resident of the book
\* a submission works on, and is on neither side of a fill.
C11_ZeroSizeRejected ==
    /\ \A i \in OrderIds : orders[i].size = 0 =>
          /\ ~Logged("ORDER_CREATED", i)
          /\ Submitted(i) => orders[i].status = "REJECTED"
    /\ \A w \in Workers :
          /\ pc[w] \in {"process", "publish"} =>
                \A level \in Levels(engine[w].cache) :
                    \A k \in DOMAIN level :
                        level[k].id # order[w].id => orders[level[k].id].size # 0
          /\ Filling(w) => orders[order[w].id].size # 0
                           /\ orders[frame[w].opposite_order.id].size # 0
\* The rows of table Order as the program has written them: the committed
\* rows and the rows written inside a transaction that has not ended.
WrittenOrders ==
    {orders[i] : i \in OrderIds} \cup
    UNION {{tx[w].orders[i] : i \in DOMAIN tx[w].orders} : w \in Workers}

\* The size an order was submitted with: no committed write changes the size
\* of a row.
OriginalSize(i) == orders[i].size

\* C12: the remaining size of every order lies between 0 and its original
\* size, and an order has status FILLED iff its remaining size is 0.
C12_RemainingSize ==
    \A o \in WrittenOrders :
        /\ 0 <= o.size /\ o.size <= OriginalSize(o.id)
        /\ o.status = "FILLED" <=> o.size = 0
\* The size filled on a row: _execute_trade leaves the size of an order it
\* completes as it is and marks it FILLED, and subtracts the fill from the size
\* of an order it does not complete.
FilledSize(o) == IF o.status = "FILLED" THEN OriginalSize(o.id) ELSE OriginalSize(o.id) - o.size

RECURSIVE SumFilled(_, _)
SumFilled(w, S) ==
    IF S = {} THEN 0
    ELSE LET i == CHOOSE x \in S : TRUE
         IN FilledSize(RowWritten(w, i)) + SumFilled(w, S \ {i})

OrdersOf(a, sd) == {i \in OrderIds : orders[i].asset = a /\ orders[i].side = sd}

\* C13: on every asset the total size filled on BUY orders equals the total
\* size filled on SELL orders, in the committed rows and in the rows of a
\* transaction in which a fill has been executed.
C13_FilledBalance ==
    \A w \in Workers, a \in Assets :
        SumFilled(w, OrdersOf(a, "BUY")) = SumFilled(w, OrdersOf(a, "SELL"))

\* C13 witness: a fill has completed one order and left a remainder on the
\* other.
C13_Witness ==
    \E w \in Workers :
        /\ Filling(w)
        /\ order[w].status = "FILLED" /\ frame[w].opposite_order.status # "FILLED"
        /\ SumFilled(w, OrdersOf(order[w].asset, "BUY")) > 0
\* The Trade rows written for the fill worker w has executed.
TradesOf(w) ==
    _execute_trade_trades(order[w], frame[w].opposite_order,
                          frame[w].match_size, frame[w].execution_price)

\* C14: every fill creates exactly one Trade record that names its buy and
\* sell order, its price and its size.
C14_TradeRecorded ==
    \A w \in Workers : Filling(w) =>
        /\ Len(TradesOf(w)) = 1
        /\ \A k \in DOMAIN TradesOf(w) :
              /\ TradesOf(w)[k].buy_order = frame[w].trade_event.buyer_order_id
              /\ TradesOf(w)[k].sell_order = frame[w].trade_event.seller_order_id
              /\ TradesOf(w)[k].price = frame[w].execution_price
              /\ TradesOf(w)[k].size = frame[w].match_size
\* C15: every executed fill has a price above 0 and a size above 0.
C15_PositiveFill ==
    \A w \in Workers : Filling(w) =>
        frame[w].execution_price > 0 /\ frame[w].match_size > 0
\* C16: the request in which a fill of size s at price p was executed ends
\* with the buyer's cash_balance lowered by s*p and the seller's cash_balance
\* and buying_power raised by s*p.
C16_Step(w) ==
    LET e == frame[w].trade_event
        amount == frame[w].match_size * frame[w].execution_price
        buyer == orders[e.buyer_order_id].user
        seller == orders[e.seller_order_id].user
    IN (pc[w] = "publish" /\ pc'[w] = "idle") =>
          \A u \in Users :
              /\ portfolio'[u].cash_balance =
                    portfolio[u].cash_balance + (IF u = seller THEN amount ELSE 0)
                                              - (IF u = buyer THEN amount ELSE 0)
              /\ portfolio'[u].buying_power =
                    portfolio[u].buying_power + (IF u = seller THEN amount ELSE 0)

C16_FillSettled == [][\A w \in Workers : C16_Step(w)]_vars

TotalCash == SumOver([u \in Users |-> portfolio[u].cash_balance], Users)

\* The buying power the portfolios hold back: cash_balance - buying_power.
TotalReserved ==
    SumOver([u \in Users |-> portfolio[u].cash_balance - portfolio[u].buying_power], Users)

\* Orders 1 and 2 are a BUY and a SELL of the same asset and size whose prices
\* cross: a pair that fills against each other completely.
FullPair ==
    /\ Len(orders) = 2
    /\ orders[1].asset = orders[2].asset
    /\ orders[1].side # orders[2].side
    /\ orders[1].size = orders[2].size
    /\ orders[1].order_type = "LIMIT"
    /\ _is_price_matched(orders[2], orders[1].price)

\* C17: conservation of cash.  Once a BUY and a SELL that fill each other
\* completely have both been admitted and processed, the sum of cash_balance
\* over all users plus the buying power still reserved equals its initial
\* value.
C17_CashConserved ==
    ( /\ AllIdle /\ FullPair /\ NoCancellation
      /\ Logged("ORDER_CREATED", 1) /\ Logged("ORDER_CREATED", 2) )
    => TotalCash + TotalReserved = Cardinality(Users) * InitCash
\* The reservation of user u's open BUY orders: limit price x remaining size.
OpenBuyNotional(u) ==
    SumOver([i \in OrderIds |-> Notional(orders[i])],
            {i \in OrderIds : /\ orders[i].user = u /\ orders[i].side = "BUY"
                               /\ orders[i].status = "PENDING"})

\* C18: with no request in progress, the buying_power of every user is the
\* cash_balance minus the reservation of the user's open BUY orders.
C18_BuyingPower ==
    AllIdle => \A u \in Users :
        portfolio[u].buying_power = portfolio[u].cash_balance - OpenBuyNotional(u)
\* C19: every portfolio has buying_power >= 0 and cash_balance >= 0 in every
\* state, whether the user's risk limits are enabled or not.
C19_NonNegative ==
    \A u \in Users : portfolio[u].buying_power >= 0 /\ portfolio[u].cash_balance >= 0
\* C20: when the publication of a fill fails, the request ends with the
\* stored state as if the fill had not happened: both orders PENDING with the
\* size they had before the fill, every other order, the order book
\* (last_price, volume) and the audit log unchanged, and the buying power
\* reserved at admission still reserved.
C20_Step(w) ==
    LET o == order[w]
        m == frame[w].opposite_order
    IN (pc[w] = "publish" /\ pc'[w] = "idle") =>
          /\ orders' = orders
          /\ orders'[o.id].status = "PENDING" /\ orders'[o.id].size = frame[w].remaining_size
          /\ orders'[m.id].status = "PENDING"
          /\ orders'[m.id].size = IF m.status = "FILLED" THEN m.size
                                  ELSE m.size + frame[w].match_size
          /\ order_book' = order_book
          /\ order_book'[o.asset] = [engine[w].order_book EXCEPT
                                        !.last_price = order_book[o.asset].last_price,
                                        !.volume = @ - frame[w].match_size]
          /\ portfolio'[o.user] =
                [before[w] EXCEPT !.buying_power =
                    @ - (IF o.side = "BUY" THEN o.price * frame[w].remaining_size ELSE 0)]

C20_RollBack == [][\A w \in Workers : C20_Step(w)]_vars

\* C20 witness: with no request in progress, a later admitted order and an
\* earlier order of the opposite side that it crosses are both still PENDING:
\* the fill between them was executed and rolled back.
C20_Witness ==
    /\ AllIdle
    /\ \E i, j \in OrderIds :
          /\ i < j
          /\ orders[i].asset = orders[j].asset /\ orders[i].side # orders[j].side
          /\ orders[i].status = "PENDING" /\ orders[j].status = "PENDING"
          /\ orders[i].order_type = "LIMIT" /\ orders[j].side = "BUY"
          /\ _is_price_matched(orders[j], orders[i].price)
          /\ Logged("ORDER_CREATED", j)
          /\ portfolio[orders[j].user].buying_power < InitCash
\* The quantity user u holds of asset a in table pos; no row means 0.
Quantity(pos, u, a) == IF <<u, a>> \in DOMAIN pos THEN pos[<<u, a>>].quantity ELSE 0

\* quantity * average_cost of the row of u and a; no row means 0.
CostBasis(pos, u, a) ==
    IF <<u, a>> \in DOMAIN pos THEN pos[<<u, a>>].quantity * pos[<<u, a>>].average_cost ELSE 0

\* C21: the request in which a fill of size s at price p between two users
\* was executed ends with the buyer's position raised by s, its average cost
\* being (old_qty * old_avg + s * p) / new_qty, and the seller's position
\* lowered by s.
C21_Step(w) ==
    LET e == frame[w].trade_event
        s == frame[w].match_size
        p == frame[w].execution_price
        a == order[w].asset
        buyer == orders[e.buyer_order_id].user
        seller == orders[e.seller_order_id].user
    IN (pc[w] = "publish" /\ pc'[w] = "idle" /\ buyer # seller) =>
          /\ Quantity(positions', buyer, a) = Quantity(positions, buyer, a) + s
          /\ CostBasis(positions', buyer, a) = CostBasis(positions, buyer, a) + s * p
          /\ Quantity(positions', seller, a) = Quantity(positions, seller, a) - s

C21_PositionUpdated == [][\A w \in Workers : C21_Step(w)]_vars
\* C22: update_position keeps signed quantities.  For a seller other than the
\* buyer, the quantity after the call is old_qty - size, the row is deleted
\* exactly when that is 0, and a row that stays has its average_cost
\* unchanged and above 0.
C22_Step ==
    LET t == call.in
        key == <<t.seller, t.asset>>
        new_qty == Quantity(positions, t.seller, t.asset) - t.size
    IN (call.fn = "update_position" /\ call.out = "" /\ call'.out = "done"
        /\ t.seller # t.buyer) =>
          /\ key \in DOMAIN positions' <=> new_qty # 0
          /\ key \in DOMAIN positions' =>
                /\ positions'[key].quantity = new_qty
                /\ positions'[key].average_cost > 0
                /\ key \in DOMAIN positions =>
                      positions'[key].average_cost = positions[key].average_cost

C22_SignedQuantity == [][C22_Step]_vars
\* A call of validate_order returns in this step.
Validated == call.fn = "validate_order" /\ call.out = "" /\ call'.out # ""

\* The checks of the gate in the order of the claim.
CheckOrder ==
    <<"order_size", "position_size", "daily_trades", "open_orders", "daily_loss", "buying_power">>

\* Check number i rejects the order of the call.
CheckFails(i) ==
    LET o == call.in.order
        limits == call.in.limits
    IN CASE i = 1 -> o.price * o.size > limits.max_order_size
         [] i = 2 -> ~_validate_position_size(o, limits)
         [] i = 3 -> ~_validate_daily_trade_limit(o.user, limits)
         [] i = 4 -> ~_validate_open_orders_limit(orders, o.user, limits)
         [] i = 5 -> ~_validate_daily_loss_limit(o.user, limits)
         [] i = 6 -> o.side = "BUY" /\ ~_validate_buying_power(o, portfolio[o.user])

FailingChecks == {i \in DOMAIN CheckOrder : CheckFails(i)}

\* C23: with the limits enabled, validate_order returns the reason of the
\* first check, in the order order-size, position-size, daily-trade-count,
\* open-order-count, daily-loss, buying-power, that fails, whatever other
\* checks fail with it; it admits the order when none fails.
C23_Step ==
    (Validated /\ call.in.limits.enabled) =>
        call'.out = IF FailingChecks = {} THEN "ok" ELSE CheckOrder[Min(FailingChecks)]

C23_FirstFailureWins == [][C23_Step]_vars

\* C23 witness: the daily-trade check has rejected an order that the
\* open-order, daily-loss and buying-power checks reject as well.
C23_Witness ==
    /\ call.fn = "validate_order" /\ call.out = "daily_trades"
    /\ {4, 5, 6} \subseteq FailingChecks
\* C24: when the limits have enabled = false, validate_order admits the order
\* whatever the limits, the buying power, the position, the open orders and
\* the trades of the day are.
C24_Step == (Validated /\ ~call.in.limits.enabled) => call'.out = "ok"

C24_DisabledAdmits == [][C24_Step]_vars

\* C24 witness: with the limits disabled, a BUY whose notional exceeds both
\* max_order_size and the buying power has been admitted.
C24_Witness ==
    /\ call.fn = "validate_order" /\ call.out = "ok"
    /\ ~call.in.limits.enabled
    /\ {1, 6} \subseteq FailingChecks
\* C25: with the limits enabled (and no other limit in the way), a BUY order
\* passes the gate iff buying_power >= price x size; the admission of a LIMIT
\* BUY lowers buying_power by exactly price x size and leaves cash_balance as
\* it is; the admission of a SELL changes no portfolio.
C25_Step(w) ==
    LET o == order[w]
        u == o.user
    IN /\ (pc[w] = "validate" /\ pc'[w] # "validate" /\ o.side = "BUY") =>
             (pc'[w] = "reserve" <=> portfolio[u].buying_power >= o.price * o.size)
       /\ (pc[w] = "reserve" /\ pc'[w] = "load" /\ o.side = "BUY" /\ o.order_type = "LIMIT") =>
             portfolio' = [portfolio EXCEPT ![u].buying_power = @ - o.price * o.size]
       /\ (pc[w] = "reserve" /\ pc'[w] = "load" /\ o.side = "SELL") => portfolio' = portfolio

C25_Reservation == [][\A w \in Workers : C25_Step(w)]_vars

\* C25 witness: a LIMIT BUY whose cost is the whole buying power has been
\* admitted and its reservation made, before the engine has loaded the book.
C25_Witness ==
    \E w \in Workers :
        /\ pc[w] = "load"
        /\ order[w].side = "BUY" /\ order[w].order_type = "LIMIT"
        /\ before[w].buying_power = order[w].price * order[w].size
        /\ portfolio[order[w].user].buying_power = 0
        /\ portfolio[order[w].user].cash_balance = InitCash
\* C26: for a MARKET order the gate takes the best opposite price x size as
\* the notional: a MARKET order facing no opposite quote is rejected by the
\* gate, and the amount reserved for an admitted MARKET BUY is best ask x size.
C26_Step(w) ==
    LET o == order[w]
        opp == OpenOrders(o.asset, Opposite(o.side))
    IN /\ (pc[w] = "validate" /\ pc'[w] # "validate" /\ o.order_type = "MARKET" /\ opp = {}) =>
             (pc'[w] = "idle" /\ orders'[o.id].status = "REJECTED")
       /\ (pc[w] = "reserve" /\ pc'[w] = "load" /\ o.order_type = "MARKET"
            /\ o.side = "BUY" /\ opp # {}) =>
             portfolio'[o.user].buying_power =
                 portfolio[o.user].buying_power - BestOf(opp, "SELL") * o.size

C26_MarketNotional == [][\A w \in Workers : C26_Step(w)]_vars
\* The open orders the submitter holds besides the order under validation.
OtherOpenOrders ==
    {i \in OrderIds : /\ orders[i].user = call.in.order.user
                       /\ orders[i].status = "PENDING"
                       /\ i # call.in.order.id}

\* C27: with the limits enabled, an order that the earlier checks pass is
\* passed by the open-orders check iff the number of the submitter's other
\* open orders is strictly less than max_open_orders.
C27_Step ==
    (Validated /\ call.in.limits.enabled /\ FailingChecks \cap {1, 2, 3} = {}) =>
        (call'.out # "open_orders"
            <=> Cardinality(OtherOpenOrders) < call.in.limits.max_open_orders)

C27_OpenOrders == [][C27_Step]_vars

\* C28: with the limits enabled, the order-size check rejects an order iff
\* price x size > max_order_size; a notional exactly equal to max_order_size
\* is not rejected by this check.
C28_Step ==
    LET o == call.in.order
    IN (Validated /\ call.in.limits.enabled) =>
          (call'.out = "order_size" <=> o.price * o.size > call.in.limits.max_order_size)

C28_OrderSize == [][C28_Step]_vars

\* An order whose notional equals max_order_size went through the gate with
\* the limits enabled and was not rejected for its size.
C28_Witness ==
    /\ call.fn = "validate_order" /\ call.in.limits.enabled
    /\ call.in.order.price * call.in.order.size = call.in.limits.max_order_size
    /\ call.out \notin {"", "order_size"}

\* Sell revenue minus buy cost of user u over the Trade rows 1..n of today.
RECURSIVE DayPnl(_, _)
DayPnl(u, n) ==
    IF n = 0 THEN 0
    ELSE LET t == trades[n]
             v == t.price * t.size
         IN DayPnl(u, n - 1)
              + (IF t.today /\ t.seller = u THEN v ELSE 0)
              - (IF t.today /\ t.buyer = u THEN v ELSE 0)

\* C29: with the limits enabled, an order that the earlier checks pass is
\* passed by the daily-loss check iff the submitter's P&L over today's fills
\* is not below -max_daily_loss; a loss equal to max_daily_loss passes.
C29_Step ==
    (Validated /\ call.in.limits.enabled /\ FailingChecks \cap {1, 2, 3, 4} = {}) =>
        (call'.out # "daily_loss"
            <=> DayPnl(call.in.order.user, Len(trades)) >= -call.in.limits.max_daily_loss)

C29_DailyLoss == [][C29_Step]_vars

\* The fills of user u over the Trade rows 1..n of today: one for each side
\* of a trade the user is on.
RECURSIVE FillsToday(_, _)
FillsToday(u, n) ==
    IF n = 0 THEN 0
    ELSE LET t == trades[n]
         IN FillsToday(u, n - 1)
              + (IF t.today /\ t.buyer = u THEN 1 ELSE 0)
              + (IF t.today /\ t.seller = u THEN 1 ELSE 0)

\* C30: with the limits enabled, an order that the earlier checks pass is
\* passed by the daily-trade check iff the number of the submitter's fills
\* of today is strictly less than max_daily_trades, and once the count has
\* reached max_daily_trades no order of the user is admitted.
C30_Step ==
    LET fills == FillsToday(call.in.order.user, Len(trades))
        limits == call.in.limits
    IN /\ (Validated /\ limits.enabled /\ FailingChecks \cap {1, 2} = {}) =>
             (call'.out # "daily_trades" <=> fills < limits.max_daily_trades)
       /\ (Validated /\ limits.enabled /\ fills >= limits.max_daily_trades) =>
             call'.out # "ok"

C30_DailyTrades == [][C30_Step]_vars

\* An order was rejected by the daily-trade check with the count of today's
\* fills exactly at max_daily_trades, a row of an earlier day not counted.
C30_Witness ==
    /\ call.fn = "validate_order" /\ call.in.limits.enabled
    /\ call.out = "daily_trades"
    /\ FillsToday(call.in.order.user, Len(trades)) = call.in.limits.max_daily_trades
    /\ \E k \in DOMAIN trades : ~trades[k].today

\* The ids of the open orders of user u.
OpenOrdersOfUser(u) == {i \in OrderIds : orders[i].user = u /\ orders[i].status = "PENDING"}

\* The risk gate rejects the order of worker w in this step.
GateRejects(w) == pc[w] = "validate" /\ pc'[w] = "idle"

\* C31: a submission inserts one open order and leaves the portfolios alone;
\* when the risk gate then rejects it, the submitter's buying_power and
\* cash_balance are those read when the submission began, the submitter's open
\* orders are those held before the submission, and no other order row and no
\* order book row changes.
C31_Step(w) ==
    /\ (pc[w] = "idle" /\ pc'[w] = "validate") =>
          /\ portfolio' = portfolio
          /\ before'[w] = portfolio[order'[w].user]
          /\ order'[w].id = Len(orders) + 1
          /\ \A i \in OrderIds : orders'[i] = orders[i]
    /\ GateRejects(w) =>
          LET o == order[w]
          IN /\ portfolio'[o.user] = before[w]
             /\ portfolio' = portfolio
             /\ order_book' = order_book
             /\ {i \in OrderIds : orders'[i].user = o.user /\ orders'[i].status = "PENDING"}
                   = OpenOrdersOfUser(o.user) \ {o.id}
             /\ \A i \in OrderIds \ {o.id} : orders'[i] = orders[i]

C31_RejectLeavesNoTrace == [][\A w \in Workers : C31_Step(w)]_vars

\* A submission of a user who holds an open order and reserved funds has been
\* rejected by the gate.
C31_Witness ==
    /\ AllIdle
    /\ Len(audit) > 0 /\ audit[Len(audit)].action = "ORDER_REJECTED"
    /\ LET u == audit[Len(audit)].user
       IN /\ OpenOrdersOfUser(u) # {}
          /\ portfolio[u].buying_power < portfolio[u].cash_balance

\* The orders the risk gate has rejected: log_risk_limit_violated records the
\* id of the order.
GateRejected == {i \in OrderIds : Logged("RISK_LIMIT_VIOLATED", i)}

\* Order i is in the cache of the engine of worker w.
InCache(w, i) ==
    \E level \in Levels(engine[w].cache) : \E k \in DOMAIN level : level[k].id = i

\* Order i is left alone by every engine: in no cache, on neither side of a
\* fill, and not written by any transaction.
NotInBook(i) ==
    \A w \in Workers :
        /\ ~InCache(w, i)
        /\ i \notin DOMAIN tx[w].orders
        /\ Filling(w) => (order[w].id # i /\ frame[w].opposite_order.id # i)

\* Every order the gate has rejected has status REJECTED and is out of the book.
RejectedStay == \A i \in GateRejected : orders[i].status = "REJECTED" /\ NotInBook(i)

\* C32: a submission the risk gate rejects leaves its order row with status
\* REJECTED and appends audit entries that record the rejection and its
\* reason, the entries before them unchanged; from then on the order keeps
\* status REJECTED, is in no engine's cache and is on neither side of a fill.
C32_Step(w) ==
    GateRejects(w) =>
          LET o == order[w]
              n == Len(audit)
          IN /\ orders'[o.id] = [o EXCEPT !.status = "REJECTED"]
             /\ Len(audit') = n + 2 /\ SubSeq(audit', 1, n) = audit
             /\ audit'[n + 1].action = "RISK_LIMIT_VIOLATED" /\ audit'[n + 1].order_id = o.id
             /\ audit'[n + 2].action = "ORDER_REJECTED" /\ audit'[n + 2].user = o.user
             /\ audit'[n + 2].reason = audit'[n + 1].reason
             /\ \E k \in DOMAIN CheckOrder : audit'[n + 2].reason = CheckOrder[k]
C32_RejectedRecorded == [][(\A w \in Workers : C32_Step(w)) /\ RejectedStay']_vars

\* A later submission is being filled while an order the gate rejected exists.
C32_Witness ==
    \E i \in GateRejected : \E w \in Workers : Filling(w) /\ order[w].id > i

\* Every cancelled order is out of the book.
CancelledStay == \A i \in OrderIds : orders[i].status = "CANCELLED" => NotInBook(i)

\* C33: the cancellation of an open order by its owner sets the status of the
\* row to CANCELLED, gives the owner price x size of the order back as
\* buying_power if it is a BUY and nothing if it is a SELL, the cash_balance
\* and the other portfolios unchanged, and appends an ORDER_CANCELLED entry
\* for the order; a cancelled order is in no engine's cache and on neither
\* side of a later fill.
C33_Step(w) ==
    (pc[w] = "cancel" /\ pc'[w] = "idle") =>
        LET o == orders[order[w].id]
            u == o.user
        IN /\ o.status = "PENDING"
           /\ orders' = [orders EXCEPT ![o.id] = [o EXCEPT !.status = "CANCELLED"]]
           /\ portfolio'[u].buying_power =
                 portfolio[u].buying_power + (IF o.side = "BUY" THEN o.price * o.size ELSE 0)
           /\ portfolio'[u].cash_balance = portfolio[u].cash_balance
           /\ \A v \in Users \ {u} : portfolio'[v] = portfolio[v]
           /\ audit' = Append(audit, AuditEntry("ORDER_CANCELLED", u, o.id, ""))

C33_Cancel == [][(\A w \in Workers : C33_Step(w)) /\ CancelledStay']_vars

\* A BUY order has been cancelled and its funds are back, and a later order
\* of the opposite side that crosses its price has been through the engine.
C33_Witness ==
    \E i, j \in OrderIds :
        /\ i < j /\ orders[i].status = "CANCELLED" /\ orders[i].side = "BUY"
        /\ orders[j].side = "SELL" /\ orders[j].price <= orders[i].price
        /\ Submitted(j) /\ AllIdle
        /\ Logged("ORDER_CANCELLED", i)
        /\ portfolio[orders[i].user].buying_power = InitCash

\* A request of cancel is answered in this step.
Cancelled == call'.fn = "cancel" /\ call' # call

\* C34: cancel answers NotFound (404) for an order that does not exist,
\* Forbidden (403) for an order of another user and NotCancellable (400) for
\* an order with status FILLED, CANCELLED or REJECTED, and in each of these
\* cases no order, portfolio, order book or audit row changes.
C34_Step ==
    Cancelled =>
        LET u == call'.in[1]
            id == call'.in[2]
        IN /\ id \notin OrderIds => call'.out = "404"
           /\ (id \in OrderIds /\ orders[id].user # u) => call'.out = "403"
           /\ (id \in OrderIds /\ orders[id].user = u
                 /\ orders[id].status \in {"FILLED", "CANCELLED", "REJECTED"}) =>
                 call'.out = "400"
           /\ call'.out # "200" => UNCHANGED <<orders, portfolio, order_book, audit>>

C34_CancelErrors == [][C34_Step]_vars

TerminalStatuses == {"FILLED", "CANCELLED", "REJECTED"}

\* C35: a row of table Order with status FILLED, CANCELLED or REJECTED is
\* changed by no later step of a submission or of a cancellation, and the
\* order is in no engine's cache and on neither side of a fill.
C35_Step ==
    /\ \A i \in OrderIds :
          orders[i].status \in TerminalStatuses => orders'[i] = orders[i]
    /\ \A i \in 1..Len(orders') :
          orders'[i].status \in TerminalStatuses => NotInBook(i)'

C35_Terminal == [][C35_Step]_vars

\* An order that crosses the price of an earlier order in a terminal status
\* went through the engine and rests unmatched.
C35_Witness ==
    \E i, j \in OrderIds :
        /\ i < j /\ orders[i].status \in TerminalStatuses
        /\ orders[i].side = "SELL" /\ orders[j].side = "BUY"
        /\ orders[j].price >= orders[i].price
        /\ orders[j].status = "PENDING" /\ Submitted(j) /\ AllIdle

\* The entries appended to the audit log in this step.
Appended == {k \in DOMAIN audit' : k > Len(audit)}

\* C36: the request in which a fill was executed ends with an ORDER_FILLED
\* entry appended for every order, incoming or resting, whose status the fill
\* set to FILLED and with a TRADE_EXECUTED entry appended; and no step changes
\* or removes an entry the audit log already holds.
C36_Step(w) ==
    /\ (pc[w] = "publish" /\ pc'[w] = "idle") =>
          /\ \A i \in DOMAIN tx[w].orders :
                tx[w].orders[i].status = "FILLED" =>
                    \E k \in Appended :
                        audit'[k].action = "ORDER_FILLED" /\ audit'[k].order_id = i
          /\ \E k \in Appended : audit'[k].action = "TRADE_EXECUTED"
    /\ Len(audit') >= Len(audit) /\ SubSeq(audit', 1, Len(audit)) = audit

C36_FillAudited == [][\A w \in Workers : C36_Step(w)]_vars

\* A request of depth is answered in this step.
Answered == call.fn = "depth" /\ call.out = <<>> /\ call'.out # <<>>

\* The open orders of asset a on side sd at price p.
OpenAt(a, sd, p) == {i \in OpenOrders(a, sd) : orders[i].price = p}

\* The prices at which asset a has open orders on side sd.
OpenPrices(a, sd) == {orders[i].price : i \in OpenOrders(a, sd)}

\* List l is the top of side sd of the book of asset a, cut to n levels: no
\* more than n levels, in strict price order (bids descending, asks
\* ascending), the best prices of the side, each with the sum of the sizes of
\* the open orders at its price.
TopLevels(l, a, sd, n) ==
    /\ Len(l) <= n
    /\ Len(l) = Min({n, Cardinality(OpenPrices(a, sd))})
    /\ \A k \in 1..(Len(l) - 1) :
          IF sd = "BUY" THEN l[k].price > l[k + 1].price ELSE l[k].price < l[k + 1].price
    /\ \A k \in DOMAIN l :
          /\ l[k].price \in OpenPrices(a, sd)
          /\ \A p \in OpenPrices(a, sd) :
                (IF sd = "BUY" THEN p > l[k].price ELSE p < l[k].price) =>
                    \E j \in 1..(k - 1) : l[j].price = p
          /\ LET S == OpenAt(a, sd, l[k].price)
             IN l[k].size = SumOver([i \in S |-> orders[i].size], S)

\* C37: for an asset with an open order, the depth query with parameter
\* levels answers with at most `levels` price levels for each side, the bids
\* in strictly descending and the asks in strictly ascending price order,
\* each level with the sum of the sizes of the open orders at its price, and
\* changes no order, order book, portfolio or audit row.
C37_Step ==
    Answered =>
        /\ TopLevels(call'.out[1], call.in.asset, "BUY", call.in.levels)
        /\ TopLevels(call'.out[2], call.in.asset, "SELL", call.in.levels)
        /\ UNCHANGED <<orders, order_book, portfolio, audit>>

C37_Depth == [][C37_Step]_vars

\* A response whose asks are cut to fewer levels than the book has prices and
\* whose first ask level sums the sizes of two orders, with orders of another
\* asset and of another status in the table.
C37_Witness ==
    /\ call.fn = "depth" /\ call.out # <<>>
    /\ Len(call.out[2]) = call.in.levels
    /\ Cardinality(OpenPrices(call.in.asset, "SELL")) > call.in.levels
    /\ Cardinality(OpenAt(call.in.asset, "SELL", call.out[2][1].price)) = 2
    /\ \E i, j \in OrderIds : orders[i].status = "CANCELLED" /\ orders[j].asset = "B"

\* C38: when a call of BacktestEngine.run on a BacktestRun has ended, by
\* returning or by raising, the status of the run is COMPLETED or FAILED, not
\* PENDING or RUNNING; a call that returned left COMPLETED; and a run is
\* COMPLETED only if it has a BacktestResult.
C38_BacktestEnds ==
    \A b \in DOMAIN backtests :
        /\ (backtests[b].pc = "idle" /\ backtests[b].runs > 0) =>
              /\ backtests[b].status \in {"COMPLETED", "FAILED"}
              /\ backtests[b].outcome = "returned" => backtests[b].status = "COMPLETED"
        /\ backtests[b].status = "COMPLETED" => backtests[b].result

\* One run was completed and then run again, which raised on the result it
\* has already, while the other run failed with no result.
C38_Witness ==
    /\ backtests[1].pc = "idle" /\ backtests[1].runs = 2
    /\ backtests[1].status = "FAILED" /\ backtests[1].result
    /\ backtests[2].pc = "idle" /\ backtests[2].runs = 1
    /\ backtests[2].status = "FAILED" /\ ~backtests[2].result

\* C39: the publication of the trade event completes, so the request in which
\* a fill was executed ends with the fill in the tables: the rows of the
\* incoming and of the resting order as _execute_trade wrote them, and the
\* order book row with its last_price and the volume raised by the fill.
C39_Step(w) ==
    (pc[w] = "publish" /\ pc'[w] = "idle") =>
        /\ \A i \in DOMAIN tx[w].orders : orders'[i] = tx[w].orders[i]
        /\ order_book'[tx[w].order_book.asset] = tx[w].order_book
        /\ order_book'[tx[w].order_book.asset].last_price = frame[w].execution_price
        /\ order_book'[tx[w].order_book.asset].volume =
              order_book[tx[w].order_book.asset].volume + frame[w].match_size

C39_FillCompletes == [][\A w \in Workers : C39_Step(w)]_vars

\* The prices of the open orders of asset a on side sd.
RestingPrices(a, sd) == {orders[i].price : i \in OpenOrders(a, sd)}

\* C40: with no request in progress, the open orders of every asset are not
\* crossed: when the asset has open orders on both sides, the highest price of
\* an open BUY order is strictly below the lowest price of an open SELL order.
C40_NotCrossed ==
    AllIdle =>
        \A a \in Assets :
            (RestingPrices(a, "BUY") # {} /\ RestingPrices(a, "SELL") # {}) =>
                Max(RestingPrices(a, "BUY")) < Min(RestingPrices(a, "SELL"))
====
